---- MODULE Spec2Model ----
(***************************************************************************)
(* Model of the Snake class of src/src/snake.py: its body, health, speed,  *)
(* movement accumulator, growth counter and its two movement states        *)
(* (SnakeNormalState, SnakeInvincibleState).                               *)
(*                                                                         *)
(* Time is counted in ticks, TicksPerSecond ticks to the second, so that    *)
(* the cadence 1 / (speed + speed_bonus) is an exact number of ticks for    *)
(* every speed the model reaches.  A Python exception is modelled by the    *)
(* variable fault: the handler stops where the exception is raised, with    *)
(* the assignments made so far kept, and the program does not go on.        *)
(***************************************************************************)
EXTENDS Integers, Sequences, FiniteSets, TLC

\* ------------------------------------------------------------------ bounds
ArenaW == 3
ArenaH == 2
MaxCalls == 7

\* --------------------------------------------------------------- constants
TicksPerSecond == 60
MAX_HITPOINTS == 2
MIN_SPEED == 1
INIT_SPEED == 2
MAX_SPEED == 3
INVINCIBILITY_BLINK_RATE == 30
INIT_LIFETIME == 300
RESPAWN_LIFETIME == 210

None == <<>>
RIGHT == <<1, 0>>
LEFT == <<-1, 0>>
UP == <<0, -1>>
DOWN == <<0, 1>>
ZERO == <<0, 0>>
DIRECTIONS == {RIGHT, LEFT, UP, DOWN}

VARIABLES body, prev, heading, prev_heading, hitpoints, speed, speed_bonus,
          elapsed_t, grow, isalive, isvisible, isinvincible, ismoving,
          curr_state, killed_calls, killed_by, fault, last, calls

vars == <<body, prev, heading, prev_heading, hitpoints, speed, speed_bonus,
          elapsed_t, grow, isalive, isvisible, isinvincible, ismoving,
          curr_state, killed_calls, killed_by, fault, last, calls>>

\* ----------------------------------------------------------------- helpers
Sign(n) == IF n > 0 THEN 1 ELSE IF n < 0 THEN -1 ELSE 0

add_vecs(a, b) == <<a[1] + b[1], a[2] + b[2]>>

sub_vecs(a, b) == <<a[1] - b[1], a[2] - b[2]>>

\* normalize of an axis-aligned vector: the unit vector of the same direction
normalize(v) == <<Sign(v[1]), Sign(v[2])>>

toroidal(c) == <<c[1] % ArenaW, c[2] % ArenaH>>

Front(s) == SubSeq(s, 1, Len(s) - 1)

\* toggles is history: how often the state has toggled isvisible
NormalState == [kind |-> "Normal", lifetime |-> 0, elapsed_lifetime |-> 0,
                elapsed_blink |-> 0, toggles |-> 0]

InvincibleState(lifetime) ==
    [kind |-> "Invincible", lifetime |-> lifetime, elapsed_lifetime |-> 0,
     elapsed_blink |-> 0, toggles |-> 0]

\* a hitpoints setter that forgets the lower clamp
ClampHitpoints_no_floor(value) ==
    IF value > MAX_HITPOINTS THEN MAX_HITPOINTS ELSE value

ClampHitpoints(value) ==
    IF value > MAX_HITPOINTS THEN MAX_HITPOINTS
    ELSE IF value < 0 THEN 0 ELSE value

ClampSpeed(value) ==
    IF value > MAX_SPEED THEN MAX_SPEED
    ELSE IF value < MIN_SPEED THEN MIN_SPEED ELSE value

\* 1. / (speed + speed_bonus), in ticks; the caller excludes s = 0
Cadence(s) == TicksPerSecond \div s

\* what the last call was: op, its flag (setback, or "a step was taken") and
\* its number (shrink, delta_time or the amount gained)
Last(op, flag, n) == [op |-> op, flag |-> flag, n |-> n]

\* every call is counted and recorded; a run is at most MaxCalls calls of the
\* game into the snake
Called(op, flag, n) ==
    /\ calls < MaxCalls
    /\ calls' = calls + 1
    /\ last' = Last(op, flag, n)

\* ------------------------------------------------------------------- Init
SpawnCells == {<<1, 0>>, <<ArenaW - 1, ArenaH - 1>>}

\* Snake.__init__
Init ==
    \E pos \in SpawnCells :
        /\ body = <<pos, <<pos[1] + 1, pos[2]>> >>
        /\ prev = <<pos, <<pos[1] + 1, pos[2]>> >>
        /\ heading = None
        /\ prev_heading = None
        /\ hitpoints = MAX_HITPOINTS
        /\ speed = INIT_SPEED
        /\ speed_bonus = 0
        /\ elapsed_t = 0
        /\ grow = 0
        /\ isalive = TRUE
        /\ isvisible = TRUE
        /\ isinvincible = TRUE
        /\ ismoving = FALSE
        /\ curr_state = InvincibleState(INIT_LIFETIME)
        /\ killed_calls = 0
        /\ killed_by = 0
        /\ fault = "none"
        /\ last = Last("init", FALSE, 0)
        /\ calls = 0

\* -------------------------------------------------------------- take_damage
\* a shrink loop that leaves out the test of the length
RECURSIVE shrink_loop_unguarded(_, _, _, _)
shrink_loop_unguarded(b, p, n, setback) ==
    IF n <= 0 \/ Len(b) = 0
    THEN [body |-> b, prev |-> p, err |-> FALSE]
    ELSE shrink_loop_unguarded(Front(b), p, n - 1, setback)

\* the shrink loop of take_damage: [body, prev, err], err when prev.pop() or
\* body.pop() is called on an empty list
RECURSIVE shrink_loop(_, _, _, _)
shrink_loop(b, p, n, setback) ==
    IF n <= 0 \/ Len(b) = 2
    THEN [body |-> b, prev |-> p, err |-> FALSE]
    ELSE IF setback
         THEN IF Len(p) = 0
              THEN [body |-> b, prev |-> p, err |-> TRUE]
              ELSE shrink_loop(b, Front(p), n - 1, setback)
         ELSE IF Len(b) = 0
              THEN [body |-> b, prev |-> p, err |-> TRUE]
              ELSE shrink_loop(Front(b), p, n - 1, setback)

\* a heading computed the other way round, from the head toward the second cell
setback_heading_reversed(b) ==
    <<Sign(b[2][1] - b[1][1]), Sign(b[2][2] - b[1][2])>>

\* the (xpos, ypos) take_damage computes from the first two cells of b
setback_heading(b) == <<Sign(b[1][1] - b[2][1]), Sign(b[1][2] - b[2][2])>>

\* Snake.set_heading: the heading it stores for new_heading
set_heading_value(new_heading) ==
    IF new_heading # ZERO THEN normalize(new_heading) ELSE new_heading

\* a change_state that does not call the old state's leave
change_state_no_leave(old_state, inv, vis, new_state) ==
    [curr_state |-> new_state, isinvincible |-> inv, isvisible |-> vis]

\* Snake.change_state(new_state), called with the flags inv and vis as they
\* are when it is entered (a new SnakeInvincibleState has already set
\* isinvincible in its constructor): the old state's leave, when it has one,
\* then the new state installed
change_state(old_state, inv, vis, new_state) ==
    [curr_state |-> new_state,
     isinvincible |-> IF old_state.kind = "Invincible" THEN FALSE ELSE inv,
     isvisible |-> IF old_state.kind = "Invincible" THEN TRUE ELSE vis]

\* a hit grants invincibility only to a snake that is not invincible yet
grants_invincibility_always(invincible, inv) == invincible

grants_invincibility(invincible, inv) == invincible /\ ~inv

take_damage(dmg, dealt_by, setback, invincible, invinc_lifetime, shrink, slowdown) ==
    /\ fault = "none"
    /\ Called("take_damage", setback, shrink)
    /\ LET hit == ~isinvincible
           hp1 == IF hit THEN ClampHitpoints(hitpoints - dmg) ELSE hitpoints
           sl == IF hit THEN shrink_loop(body, prev, shrink, setback)
                 ELSE [body |-> body, prev |-> prev, err |-> FALSE]
           speed1 == IF hit THEN ClampSpeed(speed - slowdown) ELSE speed
           body2 == IF setback THEN sl.prev ELSE sl.body
           grant == grants_invincibility(invincible, isinvincible)
           cs == change_state(curr_state, TRUE, isvisible,
                              InvincibleState(invinc_lifetime))
       IN  IF sl.err
           THEN /\ fault' = "IndexError"
                /\ hitpoints' = hp1
                /\ body' = sl.body
                /\ prev' = sl.prev
                /\ UNCHANGED <<heading, prev_heading, speed, speed_bonus,
                               elapsed_t, grow, isalive, isvisible,
                               isinvincible, ismoving, curr_state,
                               killed_calls, killed_by>>
           ELSE IF setback /\ Len(body2) < 2
           THEN /\ fault' = "IndexError"
                /\ hitpoints' = hp1
                /\ speed' = speed1
                /\ body' = body2
                /\ prev' = sl.prev
                /\ UNCHANGED <<heading, prev_heading, speed_bonus,
                               elapsed_t, grow, isalive, isvisible,
                               isinvincible, ismoving, curr_state,
                               killed_calls, killed_by>>
           ELSE /\ fault' = "none"
                /\ hitpoints' = hp1
                /\ speed' = speed1
                /\ body' = body2
                /\ prev' = sl.prev
                /\ heading' = IF setback
                              THEN set_heading_value(setback_heading(body2))
                              ELSE heading
                /\ prev_heading' = IF setback THEN setback_heading(body2)
                                   ELSE prev_heading
                /\ curr_state' = IF grant THEN cs.curr_state ELSE curr_state
                /\ isinvincible' = IF grant THEN cs.isinvincible ELSE isinvincible
                /\ isvisible' = IF grant THEN cs.isvisible ELSE isvisible
                /\ isalive' = IF hp1 <= 0 THEN FALSE ELSE isalive
                /\ killed_calls' = IF hp1 <= 0 THEN killed_calls + 1
                                   ELSE killed_calls
                /\ killed_by' = IF hp1 <= 0 THEN dealt_by ELSE killed_by
                /\ UNCHANGED <<speed_bonus, elapsed_t, grow, ismoving>>

\* ------------------------------------------------------------------ respawn
respawn(pos) ==
    /\ fault = "none"
    /\ Called("respawn", FALSE, 0)
    /\ body' = <<pos, <<pos[1] + 1, pos[2]>> >>
    /\ speed' = INIT_SPEED
    /\ heading' = None
    /\ prev_heading' = None
    /\ ismoving' = FALSE
    /\ isalive' = TRUE
    /\ hitpoints' = ClampHitpoints(MAX_HITPOINTS)
    /\ LET cs == change_state(curr_state, TRUE, isvisible,
                              InvincibleState(RESPAWN_LIFETIME))
       IN  /\ curr_state' = cs.curr_state
           /\ isinvincible' = cs.isinvincible
           /\ isvisible' = cs.isvisible
    /\ elapsed_t' = 0
    /\ killed_calls' = 0
    /\ UNCHANGED <<prev, speed_bonus, grow, killed_by, fault>>

\* ------------------------------------------------------------ update, move
\* the tail loop of move for grow < 0: at most n pops, none at length 2
RECURSIVE pop_loop(_, _)
pop_loop(b, n) ==
    IF n <= 0 \/ Len(b) = 2 \/ Len(b) = 0 THEN b ELSE pop_loop(Front(b), n - 1)

\* a growth step that drops the tail although growth is pending
step_growth_tail_dropped(b1, g) ==
    [body |-> IF g >= 0 THEN Front(b1) ELSE pop_loop(b1, 1 - g),
     grow |-> IF g > 0 THEN g - 1 ELSE 0]

\* a negative growth step that drops 1 - g cells beside the tail
step_growth_one_more_pop(b1, g) ==
    [body |-> IF g = 0 THEN Front(b1)
              ELSE IF g > 0 THEN b1
              ELSE pop_loop(b1, 2 - g),
     grow |-> IF g > 0 THEN g - 1 ELSE 0]

\* the end of a discrete step of move: b1 is the body with the new head
\* inserted, g is grow
step_growth(b1, g) ==
    [body |-> IF g = 0 THEN Front(b1)
              ELSE IF g > 0 THEN b1
              ELSE pop_loop(b1, 1 - g),
     grow |-> IF g > 0 THEN g - 1 ELSE 0]

\* an accumulator that is reset to zero by a step
step_elapsed_reset(e, s) == 0

\* elapsed_t after a step: one cadence is subtracted
step_elapsed(e, s) == e - Cadence(s)

\* a move that leaves the head where it is
wrap_head_skipped(b) == b

\* the head cell is wrapped into the arena at the start of move
wrap_head(b) == [b EXCEPT ![1] = toroidal(b[1])]

\* Snake.move with elapsed_t = e: what it leaves in body, prev, elapsed_t and
\* grow, the exception it raises and whether it took a discrete step
move(e) ==
    IF ~ismoving
    THEN [body |-> body, prev |-> prev, elapsed_t |-> e, grow |-> grow,
          fault |-> "none", stepped |-> FALSE]
    ELSE LET b0 == wrap_head(body)
             s == speed + speed_bonus
         IN  IF s = 0
             THEN [body |-> b0, prev |-> prev, elapsed_t |-> e, grow |-> grow,
                   fault |-> "ZeroDivisionError", stepped |-> FALSE]
             ELSE IF e >= Cadence(s)
             THEN IF heading = None
                  THEN [body |-> b0, prev |-> b0, elapsed_t |-> step_elapsed(e, s),
                        grow |-> grow, fault |-> "TypeError", stepped |-> FALSE]
                  ELSE LET b1 == <<add_vecs(b0[1], heading)>> \o b0
                           sg == step_growth(b1, grow)
                       IN  [body |-> sg.body, prev |-> b0,
                            elapsed_t |-> step_elapsed(e, s), grow |-> sg.grow,
                            fault |-> "none", stepped |-> TRUE]
             ELSE [body |-> b0, prev |-> prev, elapsed_t |-> e, grow |-> grow,
                   fault |-> "none", stepped |-> FALSE]

\* a blink accumulator that is reset to zero by a toggle
blink_elapsed_reset(eb) == 0

\* elapsed_blink after a toggle: one blink period is subtracted
blink_elapsed(eb) == eb - INVINCIBILITY_BLINK_RATE

\* a lifetime that is over only once it has been exceeded
expired_late(el, lifetime) == el > lifetime

\* the lifetime of the Invincible state is over
expired(el, lifetime) == el >= lifetime

\* curr_state.update(delta_time) up to its call of move: the state's timers,
\* the blink and the transition to SnakeNormalState
state_update(delta_time) ==
    IF curr_state.kind = "Normal"
    THEN [curr_state |-> curr_state, isinvincible |-> isinvincible,
          isvisible |-> isvisible]
    ELSE LET el == curr_state.elapsed_lifetime + delta_time
             eb == curr_state.elapsed_blink + delta_time
             blink == eb >= INVINCIBILITY_BLINK_RATE
             timed == [curr_state EXCEPT
                          !.elapsed_lifetime = el,
                          !.elapsed_blink =
                              IF blink THEN blink_elapsed(eb) ELSE eb,
                          !.toggles = IF blink THEN @ + 1 ELSE @]
             vis == IF blink THEN ~isvisible ELSE isvisible
         IN  IF expired(el, curr_state.lifetime)
             THEN change_state(timed, isinvincible, vis, NormalState)
             ELSE [curr_state |-> timed, isinvincible |-> isinvincible,
                   isvisible |-> vis]

update(delta_time) ==
    /\ fault = "none"
    /\ IF ~isalive
       THEN /\ Called("update", FALSE, delta_time)
            /\ UNCHANGED <<body, prev, heading, prev_heading, hitpoints, speed,
                           speed_bonus, elapsed_t, grow, isalive, isvisible,
                           isinvincible, ismoving, curr_state, killed_calls,
                           killed_by, fault>>
       ELSE LET e == IF ismoving THEN elapsed_t + delta_time ELSE elapsed_t
                st == state_update(delta_time)
                m == move(e)
            IN  /\ Called("update", m.stepped, delta_time)
                /\ curr_state' = st.curr_state
                /\ isinvincible' = st.isinvincible
                /\ isvisible' = st.isvisible
                /\ body' = m.body
                /\ prev' = m.prev
                /\ elapsed_t' = m.elapsed_t
                /\ grow' = m.grow
                /\ fault' = m.fault
                /\ UNCHANGED <<heading, prev_heading, hitpoints, speed,
                               speed_bonus, isalive, ismoving, killed_calls,
                               killed_by>>

\* ---------------------------------------------- setters and public fields
gain_speed(amount) ==
    /\ fault = "none"
    /\ Called("gain_speed", FALSE, amount)
    /\ speed' = ClampSpeed(speed + amount)
    /\ UNCHANGED <<body, prev, heading, prev_heading, hitpoints, speed_bonus,
                   elapsed_t, grow, isalive, isvisible, isinvincible, ismoving,
                   curr_state, killed_calls, killed_by, fault>>

gain_hitpoints(amount) ==
    /\ fault = "none"
    /\ Called("gain_hitpoints", FALSE, amount)
    /\ hitpoints' = LET h == ClampHitpoints(hitpoints + amount)
                    IN  IF h > MAX_HITPOINTS THEN ClampHitpoints(MAX_HITPOINTS)
                        ELSE h
    /\ UNCHANGED <<body, prev, heading, prev_heading, speed, speed_bonus,
                   elapsed_t, grow, isalive, isvisible, isinvincible, ismoving,
                   curr_state, killed_calls, killed_by, fault>>

set_speed_bonus(value) ==
    /\ fault = "none"
    /\ Called("speed_bonus", FALSE, 0)
    /\ speed_bonus' = value
    /\ UNCHANGED <<body, prev, heading, prev_heading, hitpoints, speed,
                   elapsed_t, grow, isalive, isvisible, isinvincible, ismoving,
                   curr_state, killed_calls, killed_by, fault>>

set_heading(new_heading) ==
    /\ fault = "none"
    /\ Called("set_heading", FALSE, 0)
    /\ prev_heading' = heading
    /\ heading' = set_heading_value(new_heading)
    /\ UNCHANGED <<body, prev, hitpoints, speed, speed_bonus, elapsed_t, grow,
                   isalive, isvisible, isinvincible, ismoving, curr_state,
                   killed_calls, killed_by, fault>>

\* the game writes the public field ismoving once the snake has a heading
set_moving(value) ==
    /\ fault = "none"
    /\ heading # None
    /\ ismoving # value
    /\ Called("ismoving", FALSE, 0)
    /\ ismoving' = value
    /\ UNCHANGED <<body, prev, heading, prev_heading, hitpoints, speed,
                   speed_bonus, elapsed_t, grow, isalive, isvisible,
                   isinvincible, curr_state, killed_calls, killed_by, fault>>

\* the game writes the public field grow
set_grow(value) ==
    /\ fault = "none"
    /\ Called("grow", FALSE, 0)
    /\ grow' = value
    /\ UNCHANGED <<body, prev, heading, prev_heading, hitpoints, speed,
                   speed_bonus, elapsed_t, isalive, isvisible, isinvincible,
                   ismoving, curr_state, killed_calls, killed_by, fault>>

\* ------------------------------------------------------------ the program
\* Each specification draws the calls' arguments from the sets of one
\* concern and keeps the arguments of the other concerns to their plainest
\* values.

\* -- body, growth, shrinking and setback lengths: the snake keeps to a row,
\* every update is one cadence at INIT_SPEED long, or long enough to outlast
\* any invincibility (while the snake stands still)
BodyDmgValues == {0, MAX_HITPOINTS}
BodyShrinkValues == {0, 1, 3}
BodyDtValues == {Cadence(INIT_SPEED), INIT_LIFETIME}
BodyGrowValues == {-1, 0, 1, 2}

CallBody(SetbackValues) ==
    \/ \E dmg \in BodyDmgValues, setback \in SetbackValues,
          invincible \in BOOLEAN, shrink \in BodyShrinkValues :
           take_damage(dmg, 1, setback, invincible, TicksPerSecond, shrink, 0)
    \/ \E pos \in SpawnCells : respawn(pos)
    \/ \E delta_time \in BodyDtValues : update(delta_time)
    \/ set_heading(LEFT)
    \/ \E value \in BOOLEAN : set_moving(value)
    \/ \E value \in BodyGrowValues : set_grow(value)

NextBody == CallBody(BOOLEAN)

SpecBody == Init /\ [][NextBody]_vars

\* the same calls, setback never requested
NextNoSetback == CallBody({FALSE})

SpecNoSetback == Init /\ [][NextNoSetback]_vars

\* -- setback and the geometry of the body: the snake turns all four ways
\* and crosses the edges of the arena; no hit costs hitpoints
SetbackShrinkValues == {0, 1}
SetbackGrowValues == {0, 1}

NextSetback ==
    \/ \E setback \in BOOLEAN, shrink \in SetbackShrinkValues :
           take_damage(0, 1, setback, FALSE, TicksPerSecond, shrink, 0)
    \/ \E pos \in SpawnCells : respawn(pos)
    \/ \E delta_time \in BodyDtValues : update(delta_time)
    \/ \E new_heading \in DIRECTIONS : set_heading(new_heading)
    \/ \E value \in BOOLEAN : set_moving(value)
    \/ \E value \in SetbackGrowValues : set_grow(value)

SpecSetback == Init /\ [][NextSetback]_vars

\* -- health, speed and the movement state: the snake stands still; hits,
\* gains, respawns and updates of a blink period or of a whole lifetime
LifeDmgValues == {-1, 1, 3}
Attackers == {1, 2}
LifeSlowdownValues == {-3, 0, 1}
LifeGainValues == {-3, 1, 3}
LifeDtValues == {INVINCIBILITY_BLINK_RATE, INIT_LIFETIME}

NextLife ==
    \/ \E dmg \in LifeDmgValues, dealt_by \in Attackers, invincible \in BOOLEAN,
          slowdown \in LifeSlowdownValues :
           take_damage(dmg, dealt_by, FALSE, invincible, TicksPerSecond, 0,
                       slowdown)
    \/ \E pos \in SpawnCells : respawn(pos)
    \/ \E delta_time \in LifeDtValues : update(delta_time)
    \/ \E amount \in LifeGainValues : gain_speed(amount)
    \/ \E amount \in LifeGainValues : gain_hitpoints(amount)

SpecLife == Init /\ [][NextLife]_vars

\* -- the movement cadence: frames of 0.2 and 0.5 second, the snake moves
\* along a row, its speed and speed bonus change
TimeDtValues == {12, 30}
TimeGainValues == {-1, 1}
TimeBonusValues == {-1, 0, 1}
TimeDmgValues == {0, 3}
TimeHeadings == {LEFT, ZERO}

NextTime ==
    \/ \E dmg \in TimeDmgValues :
           take_damage(dmg, 1, FALSE, FALSE, TicksPerSecond, 0, 1)
    \/ \E pos \in SpawnCells : respawn(pos)
    \/ \E delta_time \in TimeDtValues : update(delta_time)
    \/ \E amount \in TimeGainValues : gain_speed(amount)
    \/ \E value \in TimeBonusValues : set_speed_bonus(value)
    \/ \E new_heading \in TimeHeadings : set_heading(new_heading)
    \/ \E value \in BOOLEAN : set_moving(value)

SpecTime == Init /\ [][NextTime]_vars

\* ---------------------------------------------------------- get_arrangement
N == 1
E == 2
S == 4
W == 8
SE == S + E
SW == S + W
NE == N + E
NW == N + W
STRAIGHT == 16
VERTICAL == 32

\* Python's | on non-negative integers
RECURSIVE BitOr(_, _)
BitOr(x, y) ==
    IF x = 0 THEN y
    ELSE IF y = 0 THEN x
    ELSE 2 * BitOr(x \div 2, y \div 2)
         + (IF x % 2 = 1 \/ y % 2 = 1 THEN 1 ELSE 0)

Abs(n) == IF n < 0 THEN -n ELSE n

m_distance(a, b) == Abs(a[1] - b[1]) + Abs(a[2] - b[2])

\* a tile map is its size and the cells of its portals, in the order of the
\* keys of tilemap.portals
on_edge(tilemap, cell) ==
    \/ cell[1] = 0
    \/ cell[1] = tilemap.width - 1
    \/ cell[2] = 0
    \/ cell[2] = tilemap.height - 1

\* a flag table with north and south exchanged
VEC_TO_DIRFLAG_mirrored ==
    [v \in DIRECTIONS |-> IF v = UP THEN S
                          ELSE IF v = RIGHT THEN E
                          ELSE IF v = DOWN THEN N
                          ELSE W]

VEC_TO_DIRFLAG ==
    [v \in DIRECTIONS |-> IF v = UP THEN N
                          ELSE IF v = RIGHT THEN E
                          ELSE IF v = DOWN THEN S
                          ELSE W]

\* the first portal one step from b, None when there is none
next_portal_of(portals, b) ==
    LET near == {i \in 1..Len(portals) : m_distance(portals[i], b) = 1}
    IN  IF near = {} THEN None
        ELSE portals[CHOOSE i \in near : \A j \in near : i <= j]

\* the flags returned for the part snake[index] (Python counts from 0, the
\* sequence from 1), or the KeyError of a vector that has no flag
get_arrangement(snake, index, tilemap) ==
    LET a0 == snake[index]
        b == snake[index + 1]
        c0 == snake[index + 2]
        ba_apart == m_distance(a0, b) > 1
        bc_apart == m_distance(c0, b) > 1
        a_on_edge == on_edge(tilemap, a0)
        next_portal == next_portal_of(tilemap.portals, b)
        ba1 == IF ba_apart /\ a_on_edge THEN normalize(sub_vecs(a0, b))
               ELSE sub_vecs(a0, b)
        a == IF ba_apart /\ next_portal # None THEN next_portal ELSE a0
        ba == IF ba_apart /\ next_portal # None THEN sub_vecs(a, b) ELSE ba1
        bc0 == sub_vecs(c0, b)
        bc1 == IF bc_apart /\ a_on_edge THEN normalize(<<-bc0[1], -bc0[2]>>)
               ELSE bc0
        c == IF bc_apart /\ next_portal # None THEN next_portal ELSE c0
        bc == IF bc_apart /\ next_portal # None THEN sub_vecs(c, b) ELSE bc1
    IN  IF a[1] = b[1] /\ b[1] = c[1]
        THEN [value |-> BitOr(VERTICAL, STRAIGHT), fault |-> "none"]
        ELSE IF a[2] = b[2] /\ b[2] = c[2]
        THEN [value |-> STRAIGHT, fault |-> "none"]
        ELSE IF ba \in DIRECTIONS /\ bc \in DIRECTIONS
        THEN [value |-> BitOr(VEC_TO_DIRFLAG[ba], VEC_TO_DIRFLAG[bc]),
              fault |-> "none"]
        ELSE [value |-> 0, fault |-> "KeyError"]

\* Snake.draw asks for the arrangement of a part that is neither head nor
\* tail; the snake is not changed
draw_part(index, tilemap) ==
    /\ fault = "none"
    /\ isalive /\ isvisible
    /\ 0 < index /\ index < Len(body) - 1
    /\ LET argm == get_arrangement(body, index, tilemap)
       IN  /\ Called("get_arrangement", FALSE, argm.value)
           /\ fault' = argm.fault
    /\ UNCHANGED <<body, prev, heading, prev_heading, hitpoints, speed,
                   speed_bonus, elapsed_t, grow, isalive, isvisible,
                   isinvincible, ismoving, curr_state, killed_calls,
                   killed_by>>

\* -- the arrangement of a part: a snake of three cells anywhere on a square
\* tile map, as wraps and portals can leave it, on maps with no, one and
\* two portals
TilemapSize == 3
TilemapCells == (0..TilemapSize - 1) \X (0..TilemapSize - 1)
PortalLists == {<<>>, << <<1, 1>> >>, << <<0, 0>>, <<TilemapSize - 1, 1>> >>}
Tilemaps ==
    {[width |-> TilemapSize, height |-> TilemapSize, portals |-> p] :
        p \in PortalLists}

InitArrangement ==
    \E a \in TilemapCells, b \in TilemapCells, c \in TilemapCells :
        /\ body = <<a, b, c>>
        /\ prev = <<a, b, c>>
        /\ heading = None
        /\ prev_heading = None
        /\ hitpoints = MAX_HITPOINTS
        /\ speed = INIT_SPEED
        /\ speed_bonus = 0
        /\ elapsed_t = 0
        /\ grow = 0
        /\ isalive = TRUE
        /\ isvisible = TRUE
        /\ isinvincible = FALSE
        /\ ismoving = FALSE
        /\ curr_state = NormalState
        /\ killed_calls = 0
        /\ killed_by = 0
        /\ fault = "none"
        /\ last = Last("init", FALSE, 0)
        /\ calls = 0

NextArrangement ==
    \E index \in 1..Len(body), tilemap \in Tilemaps : draw_part(index, tilemap)

SpecArrangement == InitArrangement /\ [][NextArrangement]_vars

\* -- hits on an invincible snake: hits that cost hitpoints, cells and speed
\* and that grant invincibility, on a snake that grows, moves and whose
\* invincibility expires
AbsorbDmgValues == {1, 3}
AbsorbShrinkValues == {0, 1}
AbsorbSlowdownValues == {0, 1}
AbsorbDtValues == {Cadence(INIT_SPEED), INIT_LIFETIME}

NextAbsorb ==
    \/ \E dmg \in AbsorbDmgValues, invincible \in BOOLEAN,
          shrink \in AbsorbShrinkValues, slowdown \in AbsorbSlowdownValues :
           take_damage(dmg, 1, FALSE, invincible, TicksPerSecond, shrink,
                       slowdown)
    \/ \E pos \in SpawnCells : respawn(pos)
    \/ \E delta_time \in AbsorbDtValues : update(delta_time)
    \/ set_heading(LEFT)
    \/ \E value \in BOOLEAN : set_moving(value)
    \/ set_grow(1)

SpecAbsorb == Init /\ [][NextAbsorb]_vars

\* -- the blink: frames shorter than the blink period, on a snake that
\* stands or moves along a row and that respawns
BlinkDtValues == {12, 20}

NextBlink ==
    \/ \E pos \in SpawnCells : respawn(pos)
    \/ \E delta_time \in BlinkDtValues : update(delta_time)
    \/ set_heading(LEFT)
    \/ \E value \in BOOLEAN : set_moving(value)

SpecBlink == Init /\ [][NextBlink]_vars

\* ---------------------------------------------------------------- claims
\* C1: in every run of update, respawn and take_damage calls that never
\* requests setback, whatever grow and shrink are, the body has at least 2
\* cells in every state.
C1_BodyAtLeastTwo == Len(body) >= 2

\* a hit that asked for 3 cells has cut a grown body down to 2 cells
C1_Witness ==
    /\ last = Last("take_damage", FALSE, 3)
    /\ ~isinvincible
    /\ Len(prev) >= 3
    /\ Len(body) = 2

\* C2: under every run of calls, setback hits with a shrink count included,
\* the body has at least 2 cells and no call fails on a sequence that is too
\* short or empty.
C2_BodyAtLeastTwoAlways == Len(body) >= 2 /\ fault # "IndexError"

\* C7: a discrete step taken with grow > 0 makes the body one cell longer
\* and grow one less; a step taken with grow = 0 puts the new head in front,
\* drops the tail and leaves the length as it was.
C7_Step == last'.op = "update" /\ last'.flag

C7_GrowthOneStepAtATime ==
    [][C7_Step =>
          /\ grow > 0 => Len(body') = Len(body) + 1 /\ grow' = grow - 1
          /\ grow = 0 => /\ Len(body') = Len(body)
                         /\ grow' = 0
                         /\ body' = <<add_vecs(toroidal(body[1]), heading)>>
                                       \o Front([body EXCEPT
                                                    ![1] = toroidal(body[1])])
      ]_vars

\* two growth steps have taken the body from 2 to 4 cells and a further step
\* was taken at 4 cells
C7_Witness ==
    /\ last.op = "update" /\ last.flag
    /\ grow = 0
    /\ Len(prev) = 4
    /\ Len(body) = 4

\* C8: a take_damage with setback leaves body equal to the snapshot prev
\* (shrunk by the hit) and heading and prev_heading equal to the per-axis
\* sign of the offset of the first cell from the second cell of that body.
C8_SetbackRestoresBodyAndHeading ==
    (last.op = "take_damage" /\ last.flag) =>
        /\ Len(body) >= 2
        /\ body = prev
        /\ heading = <<Sign(body[1][1] - body[2][1]),
                       Sign(body[1][2] - body[2][2])>>
        /\ prev_heading = heading

\* C9: the snake is moving straight with heading h: its last step was taken
\* with h, from a snapshot whose first two cells are adjacent along h
C9_MovingStraight(h) ==
    /\ ismoving
    /\ heading = h
    /\ Len(prev) >= 2
    /\ body[1] = add_vecs(prev[1], h)
    /\ prev[1] = add_vecs(prev[2], h)

C9_SetbackHit == last'.op = "take_damage" /\ last'.flag

\* C9 as stated: after a setback hit on a snake moving straight with heading
\* h, the heading is the opposite of h.
C9_SetbackReversesHeading ==
    [][\A h \in DIRECTIONS :
          C9_MovingStraight(h) /\ C9_SetbackHit => heading' = <<-h[1], -h[2]>>
      ]_vars

\* C9 as amended: after a setback hit on a snake moving straight with heading
\* h, the heading is h again, and when the hit has completed it points from
\* the second cell of the restored body toward its head.
C9_SetbackKeepsHeading ==
    [][\A h \in DIRECTIONS :
          C9_MovingStraight(h) /\ C9_SetbackHit =>
              /\ heading' = h
              /\ fault' = "none" => heading' = sub_vecs(body'[1], body'[2])
      ]_vars

\* two steps to the left from the spawn cell <<1, 0>>, then a setback hit: the
\* snake is back one cell and still heads left
C9_Witness ==
    /\ calls = 5
    /\ last.op = "take_damage" /\ last.flag
    /\ fault = "none"
    /\ ismoving
    /\ body = <<<<0, 0>>, <<1, 0>>>>
    /\ prev = body
    /\ heading = LEFT

\* C3: from creation or from the latest respawn the killed handler is invoked
\* once, by the hit that kills, and not again by hits on the dead snake.
C3_KilledOncePerDeath ==
    /\ isalive => killed_calls = 0
    /\ ~isalive => killed_calls = 1

\* C4: isinvincible is true exactly when the active state is the invincible
\* one, after a respawn as in every other state.
C4_InvincibleIffInvincibleState ==
    isinvincible <=> curr_state.kind = "Invincible"

\* C5: hitpoints stays within [0, MAX_HITPOINTS] and speed within
\* [MIN_SPEED, MAX_SPEED] whatever amounts the calls pass.
C5_HitpointsAndSpeedInRange ==
    /\ 0 <= hitpoints /\ hitpoints <= MAX_HITPOINTS
    /\ MIN_SPEED <= speed /\ speed <= MAX_SPEED

\* a loss of more hitpoints than there are was clamped at 0, the speed stands
\* at its upper clamp
C5_Witness ==
    /\ last = Last("gain_hitpoints", FALSE, -3)
    /\ hitpoints = 0
    /\ speed = MAX_SPEED

\* C6: an update of delta_time on a live, moving snake with cadence c (c
\* ticks times speed + speed_bonus make a second) adds delta_time to
\* elapsed_t, takes a step exactly when the sum is at least c, takes one step
\* at most (the head advances by one cell) and subtracts c for the step.
C6_CadenceStep ==
    [][\A dt \in TimeDtValues, c \in 1..TicksPerSecond :
          ( /\ last'.op = "update" /\ last'.n = dt
            /\ isalive /\ ismoving
            /\ c * (speed + speed_bonus) = TicksPerSecond ) =>
              /\ last'.flag <=> elapsed_t + dt >= c
              /\ elapsed_t' = IF elapsed_t + dt >= c THEN elapsed_t + dt - c
                              ELSE elapsed_t + dt
              /\ last'.flag =>
                    /\ Len(body') <= Len(body) + 1
                    /\ body'[2] = toroidal(body[1])
                    /\ body'[1] = add_vecs(body'[2], heading)
              /\ ~last'.flag => Len(body') = Len(body)
      ]_vars

\* cadence 30 ticks and three frames of 12 ticks: the one step is taken by
\* the third, which leaves 6 ticks
C6_Witness ==
    /\ calls = 5
    /\ last = Last("update", TRUE, 12)
    /\ speed + speed_bonus = 2
    /\ body = <<<<0, 0>>, <<1, 0>>>>
    /\ elapsed_t = 6

\* C10: in the normal state the snake is visible, and whenever an invincible
\* state is left, for the normal state or for a new invincible state, the
\* snake is visible (and, for the normal state, no longer invincible) before
\* the new state is updated.
C10_Left ==
    /\ curr_state.kind = "Invincible"
    /\ \/ curr_state'.kind = "Normal"
       \/ last'.op = "respawn"
       \/ last'.op = "take_damage" /\ curr_state' # curr_state

C10_NoStuckBlink ==
    /\ [](curr_state.kind = "Normal" => isvisible)
    /\ [][C10_Left =>
             /\ isvisible'
             /\ curr_state'.kind = "Normal" => ~isinvincible']_vars

\* the first update outlasts the initial invincibility: it blinks the snake
\* out of sight and then leaves the state
C10_Witness ==
    /\ calls = 1
    /\ last = Last("update", FALSE, INIT_LIFETIME)
    /\ curr_state.kind = "Normal"
    /\ isvisible
    /\ ~isinvincible

\* C11: computing the cadence never divides by zero, whatever values speed
\* and speed_bonus have taken through their setters.
C11_NoDivisionByZero == fault # "ZeroDivisionError"

\* C20: a snake with 0 hitpoints is not alive.
C20_DeadAtZeroHitpoints == hitpoints = 0 => ~isalive

\* C12: a hit without setback on a snake that is invincible and has
\* hitpoints left changes nothing, whatever damage, shrink, slowdown and
\* invincibility it asks for: hitpoints, speed, body, prev, heading and
\* isalive stay, killed_event is not sent, the Invincible state is neither
\* replaced nor are its timers reset.
C12_InvincibleAbsorbsHit ==
    [][(last'.op = "take_damage" /\ ~last'.flag /\ isinvincible
        /\ hitpoints > 0)
       => UNCHANGED <<body, prev, heading, prev_heading, hitpoints, speed,
                      speed_bonus, elapsed_t, grow, isalive, isvisible,
                      isinvincible, ismoving, curr_state, killed_calls,
                      killed_by, fault>>
      ]_vars

\* a hit that asked for one cell met a grown snake whose Invincible state
\* had been running: the state is still there, the cells and the speed too
C12_Witness ==
    /\ last = Last("take_damage", FALSE, 1)
    /\ isinvincible
    /\ curr_state.kind = "Invincible"
    /\ curr_state.elapsed_lifetime > 0
    /\ Len(body) >= 3
    /\ speed = INIT_SPEED
    /\ calls >= 2

\* C13: in the Invincible state every update(delta_time) adds delta_time to
\* elapsed_blink and, when the sum has reached the blink period, subtracts
\* one period and toggles isvisible once; with frames shorter than the
\* period the state has toggled floor(T / period) times after the time T.
C13_BlinkUpdate ==
    /\ last'.op = "update"
    /\ isalive
    /\ curr_state.kind = "Invincible"
    /\ curr_state'.kind = "Invincible"

C13_BlinkPeriod ==
    /\ [][C13_BlinkUpdate =>
            LET eb == curr_state.elapsed_blink + last'.n
            IN  IF eb >= INVINCIBILITY_BLINK_RATE
                THEN /\ curr_state'.elapsed_blink = eb - INVINCIBILITY_BLINK_RATE
                     /\ isvisible' = ~isvisible
                     /\ curr_state'.toggles = curr_state.toggles + 1
                ELSE /\ curr_state'.elapsed_blink = eb
                     /\ isvisible' = isvisible
                     /\ curr_state'.toggles = curr_state.toggles
        ]_vars
    /\ [](curr_state.kind = "Invincible" =>
            /\ curr_state.toggles =
                   curr_state.elapsed_lifetime \div INVINCIBILITY_BLINK_RATE
            /\ curr_state.elapsed_blink =
                   curr_state.elapsed_lifetime % INVINCIBILITY_BLINK_RATE
            /\ isvisible <=> curr_state.toggles % 2 = 0)

\* five frames of 20 ticks and two of 12 make four blink periods and 4 ticks
C13_Witness ==
    /\ last.op = "update"
    /\ curr_state.kind = "Invincible"
    /\ curr_state.toggles = 4
    /\ curr_state.elapsed_lifetime = 5 * 20 + 2 * 12
    /\ isvisible

\* C14: for a part b whose neighbours a and c are both one step away,
\* get_arrangement returns VERTICAL | STRAIGHT when the three share their x,
\* STRAIGHT when they share their y, and otherwise the flags of the compass
\* directions from b to a and from b to c, one of NE, NW, SE and SW.
C14_Neighbours == {body[1], body[3]}

C14_Adjacent ==
    /\ Len(body) = 3
    /\ m_distance(body[1], body[2]) = 1
    /\ m_distance(body[3], body[2]) = 1

C14_Compass ==
    (IF add_vecs(body[2], UP) \in C14_Neighbours THEN N ELSE 0)
    + (IF add_vecs(body[2], RIGHT) \in C14_Neighbours THEN E ELSE 0)
    + (IF add_vecs(body[2], DOWN) \in C14_Neighbours THEN S ELSE 0)
    + (IF add_vecs(body[2], LEFT) \in C14_Neighbours THEN W ELSE 0)

C14_ArrangementOfAdjacentCells ==
    (last.op = "get_arrangement" /\ C14_Adjacent) =>
        /\ fault = "none"
        /\ IF body[1][1] = body[2][1] /\ body[2][1] = body[3][1]
           THEN last.n = VERTICAL + STRAIGHT
           ELSE IF body[1][2] = body[2][2] /\ body[2][2] = body[3][2]
           THEN last.n = STRAIGHT
           ELSE /\ last.n = C14_Compass
                /\ last.n \in {NE, NW, SE, SW}

\* the part in the middle of the map, the head below it and the tail to
\* its left, on a map whose portal is the part's own cell
C14_Witness ==
    /\ last = Last("get_arrangement", FALSE, SW)
    /\ body = << <<1, 2>>, <<1, 1>>, <<0, 1>> >>
    /\ fault = "none"

\* C15: the invincibility of a live snake expires: the first update that
\* brings elapsed_lifetime to the lifetime or beyond puts the snake in the
\* Normal state, not invincible and visible, no update before it does, and
\* that same update still takes the discrete step that is due.
C15_InvincibleUpdate ==
    /\ last'.op = "update"
    /\ isalive
    /\ curr_state.kind = "Invincible"

C15_StepDue ==
    /\ ismoving
    /\ heading # None
    /\ speed + speed_bonus > 0
    /\ elapsed_t + last'.n >= Cadence(speed + speed_bonus)

C15_InvincibilityExpires ==
    /\ [][C15_InvincibleUpdate =>
            IF curr_state.elapsed_lifetime + last'.n >= curr_state.lifetime
            THEN /\ curr_state' = NormalState
                 /\ ~isinvincible'
                 /\ isvisible'
                 /\ C15_StepDue =>
                        /\ last'.flag
                        /\ body'[1] = add_vecs(toroidal(body[1]), heading)
            ELSE /\ curr_state'.kind = "Invincible"
                 /\ curr_state'.lifetime = curr_state.lifetime
                 /\ curr_state'.elapsed_lifetime =
                        curr_state.elapsed_lifetime + last'.n
        ]_vars
    /\ [](curr_state.kind = "Invincible" =>
            \/ curr_state.elapsed_lifetime < curr_state.lifetime
            \/ curr_state.elapsed_lifetime = 0)

\* the third call is an update of a whole lifetime on a moving snake: the
\* state of the constructor has expired and the step was taken
C15_Witness ==
    /\ calls = 3
    /\ last = Last("update", TRUE, INIT_LIFETIME)
    /\ curr_state = NormalState
    /\ ~isinvincible
    /\ isvisible
    /\ isalive

\* C16: a discrete step taken with grow = -k, k > 0, on a body of L cells
\* leaves max(2, L - k - 1) cells and grow = 0.
C16_ShrinkStep == C7_Step /\ grow < 0

C16_Max(x, y) == IF x > y THEN x ELSE y

C16_ShrinkStepDropsOneMore ==
    [][C16_ShrinkStep =>
          /\ Len(body') = C16_Max(2, Len(body) + grow - 1)
          /\ grow' = 0
      ]_vars

\* C16 as the code has it: the step leaves max(2, L - k) cells, the new head
\* and the cells that followed it, and grow = 0.
C16_ShrinkStepByGrow ==
    [][C16_ShrinkStep =>
          /\ Len(body') = C16_Max(2, Len(body) + grow)
          /\ body' = SubSeq(<<add_vecs(toroidal(body[1]), heading)>>
                              \o [body EXCEPT ![1] = toroidal(body[1])],
                            1, Len(body'))
          /\ grow' = 0
      ]_vars

\* a step with grow = -1 has taken a body of 4 cells to 3 cells
C16_Witness ==
    /\ last.op = "update"
    /\ last.flag
    /\ Len(prev) = 4
    /\ Len(body) = 3
    /\ grow = 0

\* C17: while the snake is moving with the heading (0, 0), an update adds
\* its delta_time to elapsed_t and leaves the body as it is: no cell is
\* added, duplicated or dropped.
C17_ZeroHeadingUpdate ==
    /\ last'.op = "update"
    /\ isalive
    /\ ismoving
    /\ heading = ZERO
    /\ fault' = "none"

C17_ZeroHeadingKeepsBody ==
    [][C17_ZeroHeadingUpdate =>
          body' = [body EXCEPT ![1] = toroidal(body[1])]
      ]_vars

\* C18: after every update of a live, moving snake the cells of the body lie
\* inside the arena, and so does the head, also after the update whose step
\* has taken it across an edge (stated for the head, the cell the wrap is
\* applied to).
C18_InArena(c) == c[1] \in 0..ArenaW - 1 /\ c[2] \in 0..ArenaH - 1

C18_BodyInArenaAfterUpdate ==
    (last.op = "update" /\ isalive /\ ismoving /\ fault = "none") =>
        C18_InArena(body[1])

\* C18 as the code has it: move wraps the head before the time test, so
\* after an update without a step the head lies inside the arena, and after
\* an update with a step the cell behind the head does, while the new head
\* is that cell plus the heading, not wrapped before the next update.
C18_MovingUpdate ==
    /\ last'.op = "update"
    /\ isalive
    /\ ismoving
    /\ fault' = "none"

C18_HeadWrappedBeforeStep ==
    [][C18_MovingUpdate =>
          IF last'.flag
          THEN /\ body'[2] = toroidal(body[1])
               /\ C18_InArena(body'[2])
               /\ body'[1] = add_vecs(body'[2], heading)
          ELSE /\ body'[1] = toroidal(body[1])
               /\ C18_InArena(body'[1])
      ]_vars

\* the update after a step across the left edge has brought the head back
\* in on the right
C18_Witness ==
    /\ last.op = "update"
    /\ ~last.flag
    /\ heading = LEFT
    /\ ismoving
    /\ body[1] = <<ArenaW - 1, 0>>
    /\ body[2] = <<0, 0>>

\* C19: take_damage never makes the body longer, with or without setback:
\* cells taken by an earlier shrink and a body reset by respawn are not
\* brought back by a setback hit.
C19_HitNeverLengthensBody ==
    [][last'.op = "take_damage" => Len(body') <= Len(body)]_vars

====
